---- MODULE Spec2Model ----
(***************************************************************************)
(* A model of add_images.py, the Encounter+ image/token adder: the image   *)
(* indexer (find_images), the match policy (match), the archive merger     *)
(* (add_image_to_compendium_zip) and the run of main() under the           *)
(* exception handlers of the __main__ block.                               *)
(*                                                                         *)
(* Paths and file names are strings; the os.path helpers are computed on   *)
(* their characters.  A file's bytes are named by the place they come from.*)
(***************************************************************************)
EXTENDS Integers, Sequences, FiniteSets, TLC

VARIABLES
    fi,             \* one call of find_images: [pc, tree, images]
    mt,             \* one call of match: [pc, ratios, auto_ratio, ask_ratio, ...]
    pc,             \* position of the run of main(): start, create, loop, prompt, exit
    extension,      \* os.path.splitext(args.compendium_path)[1]
    images,         \* the image pool, as found
    tokens,         \* the token pool, as found
    members,        \* the members of the source archive (empty for a bare .xml)
    xml_doc,        \* the document as parsed, before any attachment
    root,           \* the in-memory tree: a sequence of nodes
    output_zip,     \* the entries written to the output archive, in order
    output_exists,  \* whether a file exists at args.output_path
    node_i,         \* index in root of the node the outer loop is at
    tag_q,          \* tags of tag_files still to be looked at for that node
    candidate,      \* the best match a pending prompt asks about
    choice,         \* match()'s local: the response the operator last gave to a prompt
    log,            \* the images added by this run: [node, tag, src, dst]
    evaluated,      \* the <<node, tag>> pairs match() was called for
    outcome,        \* how the process ended
    exit_status     \* the process's exit status (-1 while it runs)

indexVars == <<fi>>
matchVars == <<mt>>
mainVars  == <<pc, extension, images, tokens, members, xml_doc, root, output_zip,
               output_exists, node_i, tag_q, candidate, choice, log, evaluated,
               outcome, exit_status>>
vars == <<fi, mt, pc, extension, images, tokens, members, xml_doc, root, output_zip,
          output_exists, node_i, tag_q, candidate, choice, log, evaluated,
          outcome, exit_status>>

----------------------------------------------------------------------------
(* Strings *)

Chr(s, i) == SubSeq(s, i, i)

UpperCase == "ABCDEFGHIJKLMNOPQRSTUVWXYZ"
LowerCase == "abcdefghijklmnopqrstuvwxyz"

LowerChr(c) ==
    IF \E i \in 1..Len(UpperCase) : Chr(UpperCase, i) = c
    THEN Chr(LowerCase, CHOOSE i \in 1..Len(UpperCase) : Chr(UpperCase, i) = c)
    ELSE c

RECURSIVE lower(_)
\* str.lower()
lower(s) == IF s = "" THEN "" ELSE LowerChr(Chr(s, 1)) \o lower(Tail(s))

\* str.endswith(suffix)
endswith(s, suffix) ==
    /\ Len(s) >= Len(suffix)
    /\ SubSeq(s, Len(s) - Len(suffix) + 1, Len(s)) = suffix

\* `a in b` for two strings: a is a substring of b
StrIn(a, b) ==
    \E i \in 1..(Len(b) + 1) :
        /\ i + Len(a) - 1 <= Len(b)
        /\ SubSeq(b, i, i + Len(a) - 1) = a

RECURSIVE rfindFrom(_, _, _)
rfindFrom(s, c, i) ==
    IF i = 0 THEN 0
    ELSE IF Chr(s, i) = c THEN i
    ELSE rfindFrom(s, c, i - 1)

\* str.rfind(c): the last index of the character c in s, 0 when there is none
rfind(s, c) == rfindFrom(s, c, Len(s))

\* os.path.basename
basename(path) == SubSeq(path, rfind(path, "/") + 1, Len(path))

\* os.path.splitext: the extension starts at the last dot of the last
\* component, leading dots of that component not counting
splitext(path) ==
    LET sep == rfind(path, "/")
        dot == rfind(path, ".")
    IN  IF dot > sep /\ \E k \in (sep + 1)..(dot - 1) : Chr(path, k) # "."
        THEN <<SubSeq(path, 1, dot - 1), SubSeq(path, dot, Len(path))>>
        ELSE <<path, "">>

\* os.path.join of a directory and a relative name
join(dir, name) ==
    IF dir = "" \/ endswith(dir, "/") THEN dir \o name ELSE dir \o "/" \o name

SeqToSet(s) == {s[i] : i \in 1..Len(s)}

----------------------------------------------------------------------------
(* find_images *)

ImageSuffixes == {".jpg", ".jpeg", ".png"}

\* line 52: f.endswith(('.jpg', '.jpeg', '.png'))
IsImageName(f) == \E suffix \in ImageSuffixes : endswith(f, suffix)

RECURSIVE FoundIn(_, _)
\* lines 51-54: the inner loop over the files of one directory
FoundIn(root_dir, files) ==
    IF files = <<>> THEN <<>>
    ELSE (IF IsImageName(Head(files)) THEN <<join(root_dir, Head(files))>> ELSE <<>>)
         \o FoundIn(root_dir, Tail(files))

RECURSIVE find_images(_)
\* tree is what os.walk(path) yields: a sequence of [root_dir, files]
find_images(tree) ==
    IF tree = <<>> THEN <<>>
    ELSE FoundIn(Head(tree).root_dir, Head(tree).files) \o find_images(Tail(tree))

RECURSIVE Orderings(_)
\* every ordering of the set S, as a set of sequences
Orderings(S) ==
    IF S = {} THEN {<<>>}
    ELSE UNION {{<<x>> \o rest : rest \in Orderings(S \ {x})} : x \in S}

\* every listing of at most n of the names, in any order
Listings(names, n) ==
    UNION {Orderings(S) : S \in {T \in SUBSET names : Cardinality(T) <= n}}

----------------------------------------------------------------------------
(* find_best_match, match *)

DefaultAutoRatio == 80
DefaultAskRatio == 50
MaxRatio == 100

\* The range of fuzz.ratio
Ratios == 0..MaxRatio

\* line 77: max(ratios, key=...) keeps the first of several equal maxima
BestIndex(ratios) ==
    CHOOSE i \in 1..Len(ratios) :
        /\ \A j \in 1..Len(ratios) : ratios[j] <= ratios[i]
        /\ \A j \in 1..(i - 1) : ratios[j] < ratios[i]

\* ratios[k] is fuzz.ratio of the cleaned name of files[k] and the entry's name
find_best_match(files, ratios) ==
    <<ratios[BestIndex(ratios)], files[BestIndex(ratios)]>>

MatchTierAutoStrict(match_ratio, auto_ratio, ask_ratio) ==
    IF match_ratio > auto_ratio THEN "auto"
    ELSE IF match_ratio >= ask_ratio THEN "ask"
    ELSE "none"

\* lines 101, 105, 120: the branch match() takes
MatchTier(match_ratio, auto_ratio, ask_ratio) ==
    IF match_ratio >= auto_ratio THEN "auto"
    ELSE IF match_ratio >= ask_ratio THEN "ask"
    ELSE "none"

\* line 111: the responses that end the prompt loop
ValidChoices == {"n", "y", "", "q"}

\* lines 115-124: what match() does with a valid response
ChoiceOutcome(c) ==
    IF StrIn(c, "q") THEN "quit"
    ELSE IF c = "n" THEN "reject"
    ELSE "accept"

----------------------------------------------------------------------------
(* add_image_to_compendium_zip *)

\* lines 38-41
sub_directories(node_type) ==
    CASE node_type = "monster" -> "monsters"
      [] node_type = "item" -> "items"

\* ZipFile.namelist()
namelist(zip) == {zip[k].name : k \in 1..Len(zip)}

Unresolved == ""

\* line 89: the name with one more random string
Suffixed(image_file_name, random_str) ==
    splitext(image_file_name)[1] \o "_" \o random_str \o splitext(image_file_name)[2]

RECURSIVE UniqueName(_, _, _, _)
\* lines 86-90: random_strs are the strings random.choices draws, in order;
\* Unresolved when the name still collides after all of them
UniqueName(names, dir, image_file_name, random_strs) ==
    IF join(dir, image_file_name) \notin names THEN image_file_name
    ELSE IF random_strs = <<>> THEN Unresolved
    ELSE UniqueName(names, dir, Suffixed(image_file_name, Head(random_strs)),
                    Tail(random_strs))

RECURSIVE Draws(_, _, _, _, _)
\* the sequences of at most n strings of strs that the loop of lines 86-90 may
\* draw before it ends: none when the name is free
Draws(names, dir, image_file_name, strs, n) ==
    IF join(dir, image_file_name) \notin names THEN {<<>>}
    ELSE IF n = 0 THEN {}
    ELSE UNION {{<<r>> \o rest :
                    rest \in Draws(names, dir, Suffixed(image_file_name, r), strs, n - 1)} :
                r \in strs}

\* lines 80-94: the archive after the call
add_image_to_compendium_zip(path, node_type, zip, random_strs) ==
    Append(zip,
           [name |-> join(sub_directories(node_type),
                          UniqueName(namelist(zip), sub_directories(node_type),
                                     basename(path), random_strs)),
            data |-> path])

----------------------------------------------------------------------------
(* Inputs *)

MaxFiles == 2
MaxDelta == 1

\* The responses an operator may type: the four valid ones and an invalid one
Choices == ValidChoices \cup {"x"}

NoChoice == "<none>"
NoCandidate == [ratio |-> -1, file |-> "", tag |-> ""]

\* What a directory of loose files may hold when find_images is checked alone
IndexNames == {"goblin.png", "GOBLIN.PNG", "orc.Jpg", "wolf.jpg", "troll.jpeg", "notes.txt"}

\* os.walk of a directory with one sub-directory, top-down
IndexTrees(dir) ==
    {<<[root_dir |-> dir, files |-> a], [root_dir |-> join(dir, "sub"), files |-> b]>> :
        a \in Listings(IndexNames, MaxFiles), b \in Listings(IndexNames, MaxFiles)}

\* The thresholds match() is checked with: the defaults, their neighbours, the ends
Thresholds ==
    {0, MaxRatio}
    \cup {DefaultAutoRatio + d : d \in (0 - MaxDelta)..MaxDelta}
    \cup {DefaultAskRatio + d : d \in (0 - MaxDelta)..MaxDelta}

\* The ratios of a pool of one candidate (every ratio) or two (the thresholds)
RatioLists ==
    {<<r>> : r \in Ratios}
    \cup {<<r1, r2>> : r1 \in Thresholds \cap Ratios, r2 \in Thresholds \cap Ratios}

MatchFiles == <<"imgs/goblin.png", "imgs/orc.jpeg">>

IndexIdle == fi = [pc |-> "idle", tree |-> <<>>, images |-> <<>>]

MatchIdle ==
    mt = [pc |-> "idle", files |-> <<>>, ratios |-> <<>>, auto_ratio |-> DefaultAutoRatio,
          ask_ratio |-> DefaultAskRatio, prompted |-> FALSE, choice |-> NoChoice,
          ret |-> <<>>]

MainIdle ==
    /\ pc = "idle"
    /\ extension = ""
    /\ images = <<>>
    /\ tokens = <<>>
    /\ members = <<>>
    /\ xml_doc = <<>>
    /\ root = <<>>
    /\ output_zip = <<>>
    /\ output_exists = FALSE
    /\ node_i = 0
    /\ tag_q = <<>>
    /\ candidate = NoCandidate
    /\ choice = NoChoice
    /\ log = <<>>
    /\ evaluated = {}
    /\ outcome = "running"
    /\ exit_status = -1

----------------------------------------------------------------------------
(* find_images, called alone *)

InitIndex ==
    /\ fi \in {[pc |-> "call", tree |-> t, images |-> <<>>] : t \in IndexTrees("imgs")}
    /\ MatchIdle
    /\ MainIdle

\* lines 48-56
IndexWalk ==
    /\ fi.pc = "call"
    /\ fi' = [fi EXCEPT !.pc = "return", !.images = find_images(fi.tree)]
    /\ UNCHANGED matchVars
    /\ UNCHANGED mainVars

NextIndex == IndexWalk

SpecIndex == InitIndex /\ [][NextIndex]_vars

----------------------------------------------------------------------------
(* match, called alone *)

InitMatch ==
    /\ mt \in {[pc |-> "call", files |-> SubSeq(MatchFiles, 1, Len(rs)), ratios |-> rs,
                auto_ratio |-> auto, ask_ratio |-> ask, prompted |-> FALSE,
                choice |-> NoChoice, ret |-> <<>>] :
                  rs \in RatioLists, auto \in Thresholds, ask \in Thresholds}
    /\ IndexIdle
    /\ MainIdle

\* lines 98-107 and 119-124: up to the first input(), or to the return
MatchCall ==
    /\ mt.pc = "call"
    /\ LET best == find_best_match(mt.files, mt.ratios)
           tier == MatchTier(best[1], mt.auto_ratio, mt.ask_ratio)
       IN  mt' = CASE tier = "auto" -> [mt EXCEPT !.pc = "return", !.ret = <<best[2]>>]
                   [] tier = "ask" -> [mt EXCEPT !.pc = "prompt", !.prompted = TRUE]
                   [] tier = "none" -> [mt EXCEPT !.pc = "return", !.ret = <<>>]
    /\ UNCHANGED indexVars
    /\ UNCHANGED mainVars

\* lines 110-124: one response to input()
MatchAnswer(c) ==
    /\ mt.pc = "prompt"
    /\ LET best == find_best_match(mt.files, mt.ratios)
       IN  mt' = IF c \notin ValidChoices THEN [mt EXCEPT !.choice = c]
                 ELSE CASE ChoiceOutcome(c) = "quit" ->
                               [mt EXCEPT !.pc = "raise", !.choice = c]
                        [] ChoiceOutcome(c) = "reject" ->
                               [mt EXCEPT !.pc = "return", !.choice = c, !.ret = <<>>]
                        [] ChoiceOutcome(c) = "accept" ->
                               [mt EXCEPT !.pc = "return", !.choice = c, !.ret = <<best[2]>>]
    /\ UNCHANGED indexVars
    /\ UNCHANGED mainVars

NextMatch ==
    \/ MatchCall
    \/ \E c \in Choices : MatchAnswer(c)

SpecMatch == InitMatch /\ [][NextMatch]_vars

----------------------------------------------------------------------------
(* The run of main(): inputs *)

MaxNodes == 2
MaxDraws == 2

\* args.compendium_path
CompendiumPaths == {"in/c.xml", "in/c.Compendium", "in/c.txt"}

\* What a pool directory may hold
PoolNames == {"goblin.png", "notes.txt"}

PoolTrees(dir) ==
    {<<[root_dir |-> dir, files |-> a]>> : a \in Listings(PoolNames, MaxFiles)}

\* args.image_paths, args.token_paths: absent, or one directory
PathArgs(dir) == {<<>>} \cup {<<t>> : t \in PoolTrees(dir)}

\* The ratios fuzz.ratio may give in a run: one below the thresholds, one at each
MainRatios == {DefaultAskRatio - 1, DefaultAskRatio, DefaultAutoRatio}

\* The strings random.choices may draw
RandomStrs == {"aaaaaa", "bbbbbb"}

Child(tag, text) == [tag |-> tag, text |-> text]

NameChild == Child("name", "Goblin")

\* A monster of the source document: without a name, bare, or with an image
\* or a token already
MonsterChildLists ==
    {<<>>,
     <<NameChild>>,
     <<NameChild, Child("image", "old.png")>>,
     <<NameChild, Child("token", "old_token.png")>>}

\* An item of the source document: bare, or with an image already
ItemChildLists ==
    {<<NameChild>>,
     <<NameChild, Child("image", "old.png")>>}

\* The top-level elements of a document
NodeKinds ==
    {[tag |-> "monster", children |-> c] : c \in MonsterChildLists}
    \cup {[tag |-> "item", children |-> c] : c \in ItemChildLists}
    \cup {[tag |-> "spell", children |-> <<NameChild>>]}

Docs == UNION {[1..n -> NodeKinds] : n \in 0..MaxNodes}

\* What ElementTree.parse meets: a malformed file, or a document
ParseInputs ==
    {[ok |-> FALSE, nodes |-> <<>>]} \cup {[ok |-> TRUE, nodes |-> d] : d \in Docs}

Member(name) == [name |-> name, data |-> "zip:" \o name]

\* The source archives: any of these members
Archives ==
    {a \o b \o c :
        a \in {<<>>, <<Member("compendium.xml")>>},
        b \in {<<>>, <<Member("monsters/goblin.png")>>},
        c \in {<<>>, <<Member("sub/compendium.xml")>>}}

----------------------------------------------------------------------------
(* The run of main(): helpers *)

\* Element.find(tag) is not None: a direct child of that tag
HasChild(node, tag) == \E k \in 1..Len(node.children) : node.children[k].tag = tag

\* Element.find(tag).text: the first child of that tag
ChildText(node, tag) ==
    node.children[CHOOSE k \in 1..Len(node.children) :
                      /\ node.children[k].tag = tag
                      /\ \A j \in 1..(k - 1) : node.children[j].tag # tag].text

RECURSIVE Concat(_)
Concat(lists) == IF lists = <<>> THEN <<>> ELSE Head(lists) \o Concat(Tail(lists))

\* lines 149-154: the pool found under every directory given
FindAll(paths) == Concat([k \in 1..Len(paths) |-> find_images(paths[k])])

TagFilesTokensForAll(node, imgs, toks) ==
    (IF Len(imgs) > 0 THEN <<"image">> ELSE <<>>)
    \o (IF Len(toks) > 0 THEN <<"token">> ELSE <<>>)

\* lines 205-209: the keys of tag_files, in insertion order
TagFiles(node, imgs, toks) ==
    (IF Len(imgs) > 0 THEN <<"image">> ELSE <<>>)
    \o (IF node.tag = "monster" /\ Len(toks) > 0 THEN <<"token">> ELSE <<>>)

\* tag_files[tag]
PoolOf(tag, imgs, toks) == IF tag = "image" THEN imgs ELSE toks

\* lines 178-184: the members written to the output archive
CopiedMembers(archive) ==
    SelectSeq(archive, LAMBDA m : basename(m.name) # "compendium.xml")

\* line 172
HasCompendiumXml(archive) == \E k \in 1..Len(archive) : archive[k].name = "compendium.xml"

\* line 166
IsArchive(ext) == lower(ext) \in {".zip", ".compendium"}

\* The exception each way of ending leaves main() with
Raised(how) ==
    CASE how \in {"config_error", "missing_xml"} -> "SystemExit"
      [] how = "quit" -> "Quit"
      [] how = "error" -> "Exception"
      [] how \in {"returned", "completed"} -> "none"

OutputAfterQuitKept(exc, opened) == IF exc = "Exception" THEN FALSE ELSE opened

\* lines 162 and 280-290: whether a file is left at output_path. Leaving the
\* with block closes the archive; the two handlers remove the file
OutputAfter(exc, opened) == IF exc \in {"Quit", "Exception"} THEN FALSE ELSE opened

\* lines 135, 140, 145, 159, 175 and 280-290: sys.exit(1) is the only non-zero exit
ExitStatus(exc) == IF exc = "SystemExit" THEN 1 ELSE 0

\* The process ends
Terminate(how, opened) ==
    /\ pc' = "exit"
    /\ outcome' = how
    /\ output_exists' = OutputAfter(Raised(how), opened)
    /\ exit_status' = ExitStatus(Raised(how))

----------------------------------------------------------------------------
(* The run of main() *)

Init ==
    /\ IndexIdle
    /\ MatchIdle
    /\ pc = "start"
    /\ extension = ""
    /\ images = <<>>
    /\ tokens = <<>>
    /\ members = <<>>
    /\ xml_doc = <<>>
    /\ root = <<>>
    /\ output_zip = <<>>
    /\ output_exists = FALSE
    /\ node_i = 0
    /\ tag_q = <<>>
    /\ candidate = NoCandidate
    /\ choice = NoChoice
    /\ log = <<>>
    /\ evaluated = {}
    /\ outcome = "running"
    /\ exit_status = -1

\* lines 130-159: the checks of the arguments, and the two pools
ValidateWith(path, path_exists, image_paths, token_paths) ==
    /\ pc = "start"
    /\ extension' = splitext(path)[2]
    /\ IF \/ lower(splitext(path)[2]) \notin {".zip", ".compendium", ".xml"}
          \/ ~path_exists
          \/ Len(image_paths) + Len(token_paths) = 0
          \/ Len(FindAll(image_paths)) + Len(FindAll(token_paths)) = 0
       THEN /\ Terminate("config_error", FALSE)
            /\ UNCHANGED <<images, tokens>>
       ELSE /\ pc' = "create"
            /\ images' = FindAll(image_paths)
            /\ tokens' = FindAll(token_paths)
            /\ UNCHANGED <<outcome, output_exists, exit_status>>
    /\ UNCHANGED <<members, xml_doc, root, output_zip, node_i, tag_q, candidate, choice,
                   log, evaluated>>
    /\ UNCHANGED indexVars
    /\ UNCHANGED matchVars

\* lines 162-192: the output archive is created, a source archive is extracted
\* and copied, and the document is parsed. io_error: extractall raises
OpenOutputWith(archive, parsed, io_error) ==
    /\ pc = "create"
    /\ members' = IF IsArchive(extension) THEN archive ELSE <<>>
    /\ IF IsArchive(extension) /\ io_error
       THEN /\ Terminate("error", TRUE)
            /\ UNCHANGED <<output_zip, xml_doc, root>>
       ELSE IF IsArchive(extension) /\ ~HasCompendiumXml(archive)
       THEN /\ Terminate("missing_xml", TRUE)
            /\ UNCHANGED <<output_zip, xml_doc, root>>
       ELSE /\ output_zip' = IF IsArchive(extension) THEN CopiedMembers(archive) ELSE <<>>
            /\ IF ~parsed.ok
               THEN /\ Terminate("error", TRUE)
                    /\ UNCHANGED <<xml_doc, root>>
               ELSE /\ pc' = "loop"
                    /\ output_exists' = TRUE
                    /\ xml_doc' = parsed.nodes
                    /\ root' = parsed.nodes
                    /\ UNCHANGED <<outcome, exit_status>>
    /\ UNCHANGED <<extension, images, tokens, node_i, tag_q, candidate, choice, log,
                   evaluated>>
    /\ UNCHANGED indexVars
    /\ UNCHANGED matchVars

\* lines 195-209: the outer loop takes the next node
NextNode ==
    /\ pc = "loop"
    /\ tag_q = <<>>
    /\ node_i < Len(root)
    /\ LET node == root[node_i + 1]
       IN  IF node.tag \notin {"monster", "item"}
           THEN /\ node_i' = node_i + 1
                /\ UNCHANGED <<pc, tag_q, outcome, output_exists, exit_status>>
           ELSE IF ~HasChild(node, "name")
           THEN /\ Terminate("error", TRUE)
                /\ UNCHANGED <<node_i, tag_q>>
           ELSE /\ node_i' = node_i + 1
                /\ tag_q' = TagFiles(node, images, tokens)
                /\ UNCHANGED <<pc, outcome, output_exists, exit_status>>
    /\ UNCHANGED <<extension, images, tokens, members, xml_doc, root, output_zip,
                   candidate, choice, log, evaluated>>
    /\ UNCHANGED indexVars
    /\ UNCHANGED matchVars

\* line 224: the text of the new child
AttachedText(image_file_path) == basename(image_file_path)

\* What random.choices may draw while the image is added for the current node
RandomDraws(image_file_path) ==
    Draws(namelist(output_zip), sub_directories(root[node_i].tag),
          basename(image_file_path), RandomStrs, MaxDraws)

\* lines 223-225: the image is added to the archive and the child to the node
Attach(image_file_path, tag, random_strs) ==
    /\ output_zip' = add_image_to_compendium_zip(image_file_path, root[node_i].tag,
                                                  output_zip, random_strs)
    /\ root' = [root EXCEPT ![node_i].children =
                                Append(@, Child(tag, AttachedText(image_file_path)))]
    /\ log' = Append(log, [node |-> node_i, tag |-> tag, src |-> image_file_path,
                           dst |-> output_zip'[Len(output_zip')].name])

\* lines 211-225: one turn of the inner loop, up to input() when match() prompts
CheckTag ==
    /\ pc = "loop"
    /\ tag_q # <<>>
    /\ IF HasChild(root[node_i], Head(tag_q))
       THEN /\ Terminate("returned", TRUE)
            /\ UNCHANGED <<tag_q, candidate, evaluated, root, output_zip, log>>
       ELSE \E ratios \in [1..Len(PoolOf(Head(tag_q), images, tokens)) -> MainRatios] :
              LET best == find_best_match(PoolOf(Head(tag_q), images, tokens), ratios)
                  tier == MatchTier(best[1], DefaultAutoRatio, DefaultAskRatio)
              IN  /\ evaluated' = evaluated \cup {<<node_i, Head(tag_q)>>}
                  /\ UNCHANGED <<outcome, output_exists, exit_status>>
                  /\ CASE tier = "auto" ->
                            /\ \E random_strs \in RandomDraws(best[2]) :
                                  Attach(best[2], Head(tag_q), random_strs)
                            /\ tag_q' = Tail(tag_q)
                            /\ UNCHANGED <<pc, candidate>>
                       [] tier = "ask" ->
                            /\ pc' = "prompt"
                            /\ candidate' = [ratio |-> best[1], file |-> best[2],
                                             tag |-> Head(tag_q)]
                            /\ UNCHANGED <<tag_q, root, output_zip, log>>
                       [] tier = "none" ->
                            /\ tag_q' = Tail(tag_q)
                            /\ UNCHANGED <<pc, candidate, root, output_zip, log>>
    /\ UNCHANGED <<extension, images, tokens, members, xml_doc, node_i, choice>>
    /\ UNCHANGED indexVars
    /\ UNCHANGED matchVars

\* lines 110-124 and 222-225: the operator responds to input()
AnswerWith(c) ==
    /\ pc = "prompt"
    /\ IF c \notin ValidChoices
       THEN /\ choice' = c
            /\ UNCHANGED <<pc, tag_q, candidate, root, output_zip, log, outcome,
                           output_exists, exit_status>>
       ELSE CASE ChoiceOutcome(c) = "quit" ->
                    /\ choice' = c
                    /\ Terminate("quit", TRUE)
                    /\ UNCHANGED <<tag_q, candidate, root, output_zip, log>>
              [] ChoiceOutcome(c) = "reject" ->
                    /\ choice' = NoChoice
                    /\ pc' = "loop"
                    /\ tag_q' = Tail(tag_q)
                    /\ candidate' = NoCandidate
                    /\ UNCHANGED <<root, output_zip, log, outcome, output_exists,
                                   exit_status>>
              [] ChoiceOutcome(c) = "accept" ->
                    /\ choice' = NoChoice
                    /\ \E random_strs \in RandomDraws(candidate.file) :
                          Attach(candidate.file, candidate.tag, random_strs)
                    /\ pc' = "loop"
                    /\ tag_q' = Tail(tag_q)
                    /\ candidate' = NoCandidate
                    /\ UNCHANGED <<outcome, output_exists, exit_status>>
    /\ UNCHANGED <<extension, images, tokens, members, xml_doc, node_i, evaluated>>
    /\ UNCHANGED indexVars
    /\ UNCHANGED matchVars

\* lines 227-229: the document is written and main() returns
Finish ==
    /\ pc = "loop"
    /\ tag_q = <<>>
    /\ node_i = Len(root)
    /\ output_zip' = Append(output_zip, [name |-> "compendium.xml", data |-> "xml:root"])
    /\ Terminate("completed", TRUE)
    /\ UNCHANGED <<extension, images, tokens, members, xml_doc, root, node_i, tag_q,
                   candidate, choice, log, evaluated>>
    /\ UNCHANGED indexVars
    /\ UNCHANGED matchVars

\* The run starts: the arguments and the directories are what they are
Validate ==
    /\ pc = "start"
    /\ \E path \in CompendiumPaths, path_exists \in BOOLEAN,
          image_paths \in PathArgs("imgs"), token_paths \in PathArgs("toks") :
            ValidateWith(path, path_exists, image_paths, token_paths)

\* The files are read
OpenOutput ==
    /\ pc = "create"
    /\ \E archive \in Archives, parsed \in ParseInputs, io_error \in BOOLEAN :
            OpenOutputWith(archive, parsed, io_error)

\* The operator types a response
Answer ==
    /\ pc = "prompt"
    /\ \E c \in Choices : AnswerWith(c)

Next ==
    \/ Validate
    \/ OpenOutput
    \/ NextNode
    \/ CheckTag
    \/ Answer
    \/ Finish

Spec == Init /\ [][Next]_vars

----------------------------------------------------------------------------
(* Properties *)

\* The number of direct children of a node with a tag
CountTag(node, tag) == Cardinality({k \in 1..Len(node.children) : node.children[k].tag = tag})

\* The entries of the archive with a name
EntriesNamed(zip, name) == {k \in 1..Len(zip) : zip[k].name = name}

\* The highest of the ratios of a pool
MaxOf(ratios) == CHOOSE r \in SeqToSet(ratios) : \A q \in SeqToSet(ratios) : q <= r

\* The <<entry, tag kind>> pairs of the source document the run is to evaluate:
\* the tag kind applies to the entry and the entry does not carry it
Eligible ==
    {p \in (1..Len(xml_doc)) \X {"image", "token"} :
        /\ xml_doc[p[1]].tag \in {"monster", "item"}
        /\ p[2] = "image" => Len(images) > 0
        /\ p[2] = "token" => xml_doc[p[1]].tag = "monster" /\ Len(tokens) > 0
        /\ ~HasChild(xml_doc[p[1]], p[2])}

(* C1: for every image this run added, the text of the child attached to the
   entry is the name of the file the image was written under in the output
   archive (the suffixed name after a collision), and that file holds this
   image: attachments that collided name two different files, each its own. *)
C1_AttachedTextNamesWrittenFile ==
    \A k \in 1..Len(log) :
        LET node == root[log[k].node]
        IN  /\ join(sub_directories(node.tag), ChildText(node, log[k].tag)) = log[k].dst
            /\ \A j \in EntriesNamed(output_zip, log[k].dst) :
                  output_zip[j].data = log[k].src

(* C2: in the ask tier a blank response is a yes: match() returns the
   candidate, and does not raise Quit. *)
C2_BlankResponseIsYes ==
    (mt.choice = "" /\ mt.pc # "prompt") =>
        /\ mt.pc = "return"
        /\ mt.ret = <<find_best_match(mt.files, mt.ratios)[2]>>

(* C3: a run on an archive without a top-level compendium.xml ends with a
   non-zero status and with no file at the output path. *)
C3_MissingXmlLeavesNoOutput ==
    outcome = "missing_xml" => (exit_status # 0 /\ ~output_exists)

(* C4: an entry that already carries a tag kind makes the run skip that pair
   only: a run that ends without an error and without a quit has evaluated
   every eligible <<entry, tag kind>> pair and has written compendium.xml
   into the output archive it leaves. *)
C4_SkipsOnlyThePair ==
    (pc = "exit" /\ outcome \notin {"config_error", "missing_xml", "error", "quit"}) =>
        /\ Eligible \subseteq evaluated
        /\ "compendium.xml" \in namelist(output_zip)
        /\ output_exists

(* C5: once a source archive is copied, every member of it other than the
   top-level compendium.xml is in the output archive under its own path with
   its own bytes, ahead of every image the run adds. *)
C5_MembersCopiedFirst ==
    (/\ IsArchive(extension)
     /\ \/ pc \in {"loop", "prompt"}
        \/ pc = "exit" /\ output_exists /\ outcome \in {"returned", "completed"}) =>
        \A k \in 1..Len(members) :
            members[k].name # "compendium.xml" =>
                \E j \in 1..Len(output_zip) :
                    /\ output_zip[j] = members[k]
                    /\ \A e \in 1..Len(log) :
                          \A i \in EntriesNamed(output_zip, log[e].dst) :
                              output_zip[i].data = log[e].src => j < i

(* C6: match() decides by three tiers in order: a best ratio at or above
   auto_ratio is accepted without a prompt; one below it and at or above
   ask_ratio prompts; one below both is rejected without a prompt. So no ratio
   prompts when ask_ratio >= auto_ratio. *)
C6_ThreeTiers ==
    mt.pc \in {"prompt", "return", "raise"} =>
        LET score == MaxOf(mt.ratios)
        IN  /\ score >= mt.auto_ratio =>
                  /\ ~mt.prompted
                  /\ mt.pc = "return"
                  /\ Len(mt.ret) = 1
            /\ (mt.ask_ratio <= score /\ score < mt.auto_ratio) => mt.prompted
            /\ (score < mt.ask_ratio /\ score < mt.auto_ratio) =>
                  /\ ~mt.prompted
                  /\ mt.pc = "return"
                  /\ mt.ret = <<>>
            /\ mt.ask_ratio >= mt.auto_ratio => ~mt.prompted

\* C6: the operator was asked about a candidate one below auto_ratio
C6_Witness ==
    /\ mt.pc = "prompt"
    /\ MaxOf(mt.ratios) = mt.auto_ratio - 1
    /\ mt.ask_ratio = DefaultAskRatio

(* C7: the response q to a prompt aborts the run: the step writes no image,
   attaches no element and does not write compendium.xml, it ends the process
   with no file at the output path, and nothing changes once the process has
   ended. *)
C7_QuitAborts ==
    [][/\ (pc = "prompt" /\ choice' = "q") =>
              /\ pc' = "exit"
              /\ ~output_exists'
              /\ output_zip' = output_zip
              /\ root' = root
              /\ log' = log
              /\ "compendium.xml" \notin namelist(output_zip')
       /\ pc = "exit" =>
              /\ pc' = "exit"
              /\ output_exists' = output_exists
              /\ output_zip' = output_zip
              /\ root' = root]_vars

\* C7: the operator quit a run that had already written an image
C7_Witness ==
    /\ outcome = "quit"
    /\ choice = "q"
    /\ Len(log) > 0
    /\ Len(output_zip) > 0
    /\ ~output_exists

(* C8: an unexpected error after the output archive is opened (malformed XML,
   an entry without a name, a failing extraction) deletes the output file and
   ends the process with a non-zero status. *)
C8_ErrorDeletesAndFails ==
    outcome = "error" => (~output_exists /\ exit_status # 0)

(* C9: find_images returns the files under the walked directory whose
   extension is .jpg, .jpeg or .png whatever its case, and no other file. *)
C9_IndexIgnoresCase ==
    fi.pc = "return" =>
        \A d \in 1..Len(fi.tree) :
            \A f \in SeqToSet(fi.tree[d].files) :
                (join(fi.tree[d].root_dir, f) \in SeqToSet(fi.images))
                    <=> (lower(splitext(f)[2]) \in ImageSuffixes)

(* C10: the run attaches at most one image and at most one token to an entry,
   no token to an item, no token when there is no token pool, nothing to a
   node that is no entry, and no child of a kind the entry carried in the
   source document; for such a pair it calls match() for no candidate and
   asks nothing. *)
C10_AtMostOneAttachment ==
    /\ \A i \in 1..Len(root) :
          \A t \in {"image", "token"} :
              LET added == CountTag(root[i], t) - CountTag(xml_doc[i], t)
              IN  /\ added \in {0, 1}
                  /\ added = 1 => <<i, t>> \in Eligible
                  /\ added = Cardinality({k \in 1..Len(log) :
                                             log[k].node = i /\ log[k].tag = t})
    /\ evaluated \subseteq Eligible
    /\ pc = "prompt" => <<node_i, candidate.tag>> \in Eligible

\* C10: a run completed having attached an image and a token to one monster
C10_Witness ==
    /\ outcome = "completed"
    /\ \E i \in 1..Len(root) :
          /\ CountTag(root[i], "image") = 1
          /\ CountTag(root[i], "token") = 1
          /\ ~HasChild(xml_doc[i], "image")
          /\ ~HasChild(xml_doc[i], "token")

====
